---- MODULE Spec2Model ----
(***************************************************************************)
(* Ring buffer of jafar::rtslam::hardware::HardwareSensorAbstract<T>       *)
(* (include/rtslam/hardwareSensorAbstract.hpp).                            *)
(*                                                                         *)
(* Timestamps are doubles in the source; here they are integers counted in *)
(* tenths of a second, so that the source's literals -99. (no-data         *)
(* sentinel of initData), -0.1 ("from start" threshold of getRaws) and 0.0 *)
(* become -990, -1 and 0.  A reading is identified by its timestamp: the   *)
(* producer writes strictly increasing timestamps.                         *)
(***************************************************************************)
EXTENDS Integers, Sequences, FiniteSets

VARIABLES
    bufferSize,     \* int bufferSize: fixed at construction
    buffer,         \* VecT buffer: slot -> timestamp of the reading it holds
    write_pos,      \* next position where to write
    read_pos,       \* oldest position not released
    buffer_full,    \* when read_pos = write_pos: full or empty
    read_pos_used,  \* current read_pos is being used
    data_count,     \* readings pushed since the last getLastUnreadRaw
    last_sent_pos,  \* position of the last raw sent (not set by the constructor)
    no_more_data,   \* the producer has signalled the end of the stream
    index,          \* kernel::VariableCondition<int> index
    unreleased,     \* history: slots written and not explicitly released since
    last,           \* history: the last call, its arguments and what it returned
    mutex_data,     \* boost::mutex mutex_data: the thread that holds it, or Nobody
    pc,             \* where each thread stands inside the call it is running
    writing,        \* slot the producer thread is storing into, or NoPos
    probed,         \* slots whose content the last step read
    lock_fault,     \* history: the misuse of a lock object that last happened
    quantities,     \* int quantities[qNQuantity]: offset of each quantity, or -1
    data_size,      \* size_t data_size
    cov_type,       \* CovType cov_type: fixed at construction
    registered,     \* history: the addQuantity calls since clearQuantities
    condition_send, \* kernel::VariableCondition<int> condition_send of ExporterSocket
    stop,           \* bool stop, local to ExporterSocket::sendTask
    socks,          \* std::vector<socket_ptr> socks: number of connected clients
    message,        \* double message[]: number of the state it holds (0: none yet)
    sent,           \* history: number of the state last written to the clients
    stopped         \* history: ExporterSocket::stop() has been called

threadvars == <<mutex_data, pc, writing, probed, lock_fault>>

regvars == <<quantities, data_size, cov_type, registered>>

exportvars == <<condition_send, stop, socks, message, sent, stopped>>

vars == <<bufferSize, buffer, write_pos, read_pos, buffer_full, read_pos_used,
          data_count, last_sent_pos, no_more_data, index, unreleased, last,
          threadvars, regvars, exportvars>>

----------------------------------------------------------------------------
(* Bounds of the exploration *)

MaxBufferSize == 3
MaxPushes == 4
MaxIndex == 1

(* Program constants, in tenths of a second *)

NoDataTimestamp == -990
FromStartThreshold == -1
TsStep == 10
NoPos == -1

Slots == 0 .. bufferSize - 1

----------------------------------------------------------------------------
(* The position state as one value, so that the methods are operators *)

Cur ==
    [write_pos |-> write_pos, read_pos |-> read_pos, buffer_full |-> buffer_full,
     read_pos_used |-> read_pos_used, data_count |-> data_count]

extractRawTimestamp(buf, i) == buf[i]

getFirstUnreadPos(s) ==
    IF ~s.read_pos_used THEN s.read_pos
    ELSE IF s.read_pos # bufferSize - 1 THEN s.read_pos + 1 ELSE 0

getLastUnreadPos(s) ==
    IF s.write_pos = 0 THEN bufferSize - 1 ELSE s.write_pos - 1

isFull(s) == s.read_pos = s.write_pos /\ s.buffer_full

isEmpty(s) == getFirstUnreadPos(s) = s.write_pos /\ ~s.buffer_full

getWritePos(s) ==
    IF isFull(s) THEN [err |-> "GENERIC_ERROR", ret |-> NoPos]
    ELSE [err |-> "none", ret |-> s.write_pos]

incWritePos(s) ==
    LET w1 == s.write_pos + 1
        w  == IF w1 >= bufferSize THEN 0 ELSE w1
    IN [s EXCEPT !.write_pos = w,
                 !.buffer_full = IF w = s.read_pos THEN TRUE ELSE s.buffer_full,
                 !.data_count = s.data_count + 1]

(* release that does not wrap after the last slot *)
release_nowrap(s, id) ==
    LET s1 == [s EXCEPT !.read_pos = id + 1]
        s2 == IF s1.write_pos = s1.read_pos
              THEN [s1 EXCEPT !.buffer_full = FALSE] ELSE s1
    IN [s2 EXCEPT !.read_pos_used = FALSE]

release(s, id) ==
    LET r  == IF id # bufferSize - 1 THEN id + 1 ELSE 0
        s1 == [s EXCEPT !.read_pos = r]
        s2 == IF s1.write_pos = s1.read_pos
              THEN [s1 EXCEPT !.buffer_full = FALSE] ELSE s1
    IN [s2 EXCEPT !.read_pos_used = FALSE]

(* releaseUntil that frees id as well, as release does *)
releaseUntil_through(s, id) == release(s, id)

releaseUntil(s, id) ==
    LET s1 == [s EXCEPT !.read_pos = id, !.read_pos_used = TRUE]
    IN IF getFirstUnreadPos(s1) = s1.write_pos
       THEN [s1 EXCEPT !.buffer_full = FALSE] ELSE s1

----------------------------------------------------------------------------
(* getRaws: two dichotomies over the logical indices
   write_pos .. write_pos + bufferSize - 1 *)

(* the dichotomy comparing with > instead of >= *)
reaches_strict(ts, t) == ts > t

reaches(ts, t) == ts >= t

RECURSIVE dichotomy(_, _, _, _)
dichotomy(buf, i_left, i_right, t) ==
    IF i_left = i_right THEN i_left
    ELSE LET j == (i_left + i_right) \div 2
             i == j % bufferSize
         IN IF reaches(extractRawTimestamp(buf, i), t)
            THEN dichotomy(buf, i_left, j, t)
            ELSE dichotomy(buf, j + 1, i_right, t)

range(a, b) == [k \in 1 .. (b - a) |-> a + k - 1]

(* the view built without the wrap-around branch *)
project_nowrap(i1, i2) == range(i1, i2 + 1)

project(i1, i2) ==
    IF i1 <= i2 THEN range(i1, i2 + 1)
    ELSE range(i1, bufferSize) \o range(0, i2 + 1)

predecessor(i, t1) ==
    IF t1 <= FromStartThreshold THEN i ELSE (i - 1 + bufferSize) % bufferSize

(* the release of getRaws done whatever its release argument *)
releaseUpTo_always(s, i1, rel) == [s EXCEPT !.read_pos = i1]

releaseUpTo(s, i1, rel) == IF rel THEN [s EXCEPT !.read_pos = i1] ELSE s

(* getRaws from line 282 on: the lock, the two dichotomies, the release *)
searchRaws(s, buf, t1, t2, rel) ==
    LET first_left == dichotomy(buf, s.write_pos, s.write_pos + bufferSize - 1, t1)
        i          == first_left % bufferSize
        i1         == predecessor(i, t1)
        no_larger  == extractRawTimestamp(buf, i) < t1
        no_smaller == i = s.write_pos
        i2         == IF no_larger THEN i1
                      ELSE dichotomy(buf, first_left,
                                     s.write_pos + bufferSize - 1, t2) % bufferSize
    IN IF no_larger /\ extractRawTimestamp(buf, i1) < 0
       THEN [err |-> "none", released |-> FALSE, i1 |-> i1, view |-> <<>>, s |-> s]
       ELSE IF no_smaller /\ t1 > 0
       THEN [err |-> "BUFFER_OVERFLOW", released |-> FALSE, i1 |-> i1,
             view |-> <<>>, s |-> s]
       ELSE [err |-> "none", released |-> rel, i1 |-> i1,
             view |-> project(i1, i2), s |-> releaseUpTo(s, i1, rel)]

(* JFR_ASSERT(predicate, message): the macro comes from the kernel module, not
   from these headers; a false predicate is rejected with an assertion error *)
JFR_ASSERT(predicate) == IF predicate THEN "none" ELSE "ASSERT"

(* getRaws that puts the bounds in order instead of rejecting them *)
getRaws_reordering(s, buf, t1, t2, rel) ==
    searchRaws(s, buf, IF t1 <= t2 THEN t1 ELSE t2, IF t1 <= t2 THEN t2 ELSE t1, rel)

getRaws(s, buf, t1, t2, rel) ==
    IF JFR_ASSERT(t1 <= t2) # "none"
    THEN [err |-> JFR_ASSERT(t1 <= t2), released |-> FALSE, i1 |-> NoPos,
          view |-> <<>>, s |-> s]
    ELSE searchRaws(s, buf, t1, t2, rel)

----------------------------------------------------------------------------
(* The other consumer calls *)

statusWhenEmpty == IF no_more_data THEN -2 ELSE -1

(* getUnreadRawInfos without the second run of the walk *)
getUnreadRawInfos_onerun(s) ==
    LET first == getFirstUnreadPos(s)
        lastp == getLastUnreadPos(s)
        first_stop == IF first <= lastp THEN lastp ELSE bufferSize - 1
        available == IF ~isEmpty(s) THEN range(first, first_stop + 1) ELSE <<>>
    IN [available |-> available,
        ret |-> IF Len(available) = 0 THEN statusWhenEmpty ELSE 0]

getUnreadRawInfos(s) ==
    LET first == getFirstUnreadPos(s)
        lastp == getLastUnreadPos(s)
        first_stop  == IF first <= lastp THEN lastp ELSE bufferSize - 1
        second_stop == IF first <= lastp THEN -1 ELSE lastp
        available == IF ~isEmpty(s)
                     THEN range(first, first_stop + 1) \o range(0, second_stop + 1)
                     ELSE <<>>
    IN [available |-> available,
        ret |-> IF Len(available) = 0 THEN statusWhenEmpty ELSE 0]

getNextRawInfo(s) ==
    IF ~isEmpty(s) THEN [id |-> getFirstUnreadPos(s), ret |-> 0]
    ELSE [id |-> NoPos, ret |-> statusWhenEmpty]

(* observeRaw that claims the slot, as getRaw does *)
observeRaw_claiming(s, id) == releaseUntil(s, id)

observeRaw(s, id) == s

getRaw(s, id) == releaseUntil(s, id)

(* getLastUnreadRaw holds mutex_data (line 414) and calls releaseUntil(id, true):
   there the deferred lock l owns nothing, read_pos, read_pos_used and
   buffer_full are assigned, and l.unlock() (line 130) throws boost::lock_error.
   The exception leaves getLastUnreadRaw before the copy, before data_count = 0
   and before the index notification. *)
getLastUnreadRaw(s) ==
    LET missed_count == s.data_count - 1
    IN IF s.data_count > 0
       THEN [err |-> "lock_error", ret |-> 0, copied |-> FALSE, notified |-> FALSE,
             s |-> releaseUntil(s, getLastUnreadPos(s))]
       ELSE [err |-> "none", copied |-> FALSE, notified |-> FALSE, s |-> s,
             ret |-> IF no_more_data /\ missed_count = -1 THEN -2 ELSE missed_count]

----------------------------------------------------------------------------
(* History of explicit releases.  Slots are ordered by age from write_pos (the
   oldest slot of the ring): releasing "through id" frees id and every older
   slot, releasing "until id" frees only the older ones. *)

age(x) == (x - write_pos + bufferSize) % bufferSize

releasedThrough(id) == {x \in unreleased : age(x) > age(id)}

releasedBefore(id) == {x \in unreleased : age(x) >= age(id)}

(* Slots the producer may not write before a further release: read_pos up to
   the slot before write_pos, all of them when the buffer is full *)
Window(s) ==
    IF s.read_pos = s.write_pos
    THEN IF s.buffer_full THEN Slots ELSE {}
    ELSE {x \in Slots : (x - s.read_pos + bufferSize) % bufferSize
                        < (s.write_pos - s.read_pos + bufferSize) % bufferSize}

UnreadSlots == {getUnreadRawInfos(Cur).available[k] :
                    k \in 1 .. Len(getUnreadRawInfos(Cur).available)}

Newest == LET m == CHOOSE x \in Slots : \A y \in Slots : buffer[y] <= buffer[x]
          IN IF buffer[m] < 0 THEN 0 ELSE buffer[m]

(* Times a consumer asks for: the "from start" value -0.1, and every half step
   up to past the newest reading *)
QueryTimes ==
    {FromStartThreshold} \cup {k * (TsStep \div 2) : k \in 1 .. 2 * MaxPushes + 1}

LastQueryTime == (2 * MaxPushes + 1) * (TsStep \div 2)

Call(op) ==
    [op |-> op, id |-> NoPos, t1 |-> 0, t2 |-> 0, rel |-> FALSE, err |-> "none",
     ret |-> 0, view |-> <<>>, out |-> NoDataTimestamp]

SetPos(s) ==
    /\ write_pos' = s.write_pos
    /\ read_pos' = s.read_pos
    /\ buffer_full' = s.buffer_full
    /\ read_pos_used' = s.read_pos_used
    /\ data_count' = s.data_count

----------------------------------------------------------------------------
(* Threads and the quantity registry when a specification leaves them out: no
   thread is inside a call, mutex_data is free, no quantity is registered *)

Nobody == "nobody"

Threads == {"producer", "consumer"}

NoThreads ==
    /\ mutex_data = Nobody
    /\ pc = [t \in Threads |-> "idle"]
    /\ writing = NoPos
    /\ probed = {}
    /\ lock_fault = "none"

(* enum Quantity and enum CovType *)
Quantity ==
    {"qPos", "qOriQuat", "qOriEuler", "qVel", "qAbsVel", "qAngVel", "qAbsAngVel",
     "qAcc", "qAbsAcc", "qBundleobs", "qMag"}

CovType == {"ctNone", "ctVar", "ctFull"}

(* clearQuantities(): every offset -1, data_size 0.  (obs_size, which
   accumulates the table QuantityObsSizes the same way, is left out: the table
   is not part of these headers.) *)
clearQuantities == [quantities |-> [q \in Quantity |-> -1], data_size |-> 0]

SetRegistry(r) ==
    /\ quantities' = r.quantities
    /\ data_size' = r.data_size

NoRegistry ==
    /\ quantities = clearQuantities.quantities
    /\ data_size = clearQuantities.data_size
    /\ cov_type = "ctNone"
    /\ registered = <<>>

(* The exporter when a specification leaves it out: nothing to send, no client *)
NoExporter ==
    /\ condition_send = [var |-> 0, m |-> Nobody]
    /\ stop = FALSE
    /\ socks = 0
    /\ message = 0
    /\ sent = 0
    /\ stopped = FALSE

----------------------------------------------------------------------------
(* State after construction and initData(); bufferSize is at least 2 *)

Init ==
    /\ bufferSize \in 2 .. MaxBufferSize
    /\ buffer = [i \in 0 .. bufferSize - 1 |-> NoDataTimestamp]
    /\ write_pos = 0
    /\ read_pos = 0
    /\ buffer_full = FALSE
    /\ read_pos_used = FALSE
    /\ data_count = 0
    /\ last_sent_pos = NoPos
    /\ no_more_data = FALSE
    /\ index = -1
    /\ unreleased = {}
    /\ last = Call("construct")
    /\ NoThreads
    /\ NoExporter
    /\ NoRegistry

(* Producer: getWritePos() succeeds, the reading is written there, incWritePos() *)
Push ==
    /\ ~no_more_data
    /\ Newest + TsStep <= MaxPushes * TsStep
    /\ getWritePos(Cur).err = "none"
    /\ buffer' = [buffer EXCEPT ![getWritePos(Cur).ret] = Newest + TsStep]
    /\ SetPos(incWritePos(Cur))
    /\ unreleased' = unreleased \cup {getWritePos(Cur).ret}
    /\ last' = [Call("push") EXCEPT !.id = getWritePos(Cur).ret,
                                    !.out = Newest + TsStep]
    /\ UNCHANGED <<threadvars, regvars, exportvars>>
    /\ UNCHANGED <<bufferSize, last_sent_pos, no_more_data, index>>

(* Producer: getWritePos() throws *)
PushRejected ==
    /\ ~no_more_data
    /\ getWritePos(Cur).err # "none"
    /\ last' = [Call("getWritePos") EXCEPT !.err = getWritePos(Cur).err]
    /\ UNCHANGED <<threadvars, regvars, exportvars>>
    /\ UNCHANGED <<bufferSize, buffer, write_pos, read_pos, buffer_full,
                   read_pos_used, data_count, last_sent_pos, no_more_data, index,
                   unreleased>>

(* Producer: end of stream *)
SetNoMoreData ==
    /\ ~no_more_data
    /\ no_more_data' = TRUE
    /\ last' = Call("no_more_data")
    /\ UNCHANGED <<threadvars, regvars, exportvars>>
    /\ UNCHANGED <<bufferSize, buffer, write_pos, read_pos, buffer_full,
                   read_pos_used, data_count, last_sent_pos, index, unreleased>>

GetRawsCall(t1, t2, rel) ==
    LET r == getRaws(Cur, buffer, t1, t2, rel)
    IN /\ SetPos(r.s)
       /\ unreleased' = IF r.released THEN releasedBefore(r.i1) ELSE unreleased
       /\ last' = [Call("getRaws") EXCEPT !.t1 = t1, !.t2 = t2, !.rel = rel,
                                          !.err = r.err, !.view = r.view]
       /\ UNCHANGED <<threadvars, regvars, exportvars>>
       /\ UNCHANGED <<bufferSize, buffer, last_sent_pos, no_more_data, index>>

(* The estimator asks for everything from t1 on; t1 <= t2 is the precondition
   asserted at line 281 *)
GetRaws ==
    \E t1 \in QueryTimes, rel \in BOOLEAN :
        t1 <= LastQueryTime /\ GetRawsCall(t1, LastQueryTime, rel)

GetUnreadRawInfos ==
    /\ last' = [Call("getUnreadRawInfos") EXCEPT
                    !.view = getUnreadRawInfos(Cur).available,
                    !.ret = getUnreadRawInfos(Cur).ret]
    /\ UNCHANGED <<threadvars, regvars, exportvars>>
    /\ UNCHANGED <<bufferSize, buffer, write_pos, read_pos, buffer_full,
                   read_pos_used, data_count, last_sent_pos, no_more_data, index,
                   unreleased>>

GetNextRawInfo ==
    /\ last' = [Call("getNextRawInfo") EXCEPT !.id = getNextRawInfo(Cur).id,
                                              !.ret = getNextRawInfo(Cur).ret]
    /\ UNCHANGED <<threadvars, regvars, exportvars>>
    /\ UNCHANGED <<bufferSize, buffer, write_pos, read_pos, buffer_full,
                   read_pos_used, data_count, last_sent_pos, no_more_data, index,
                   unreleased>>

ObserveRaw ==
    \E id \in Slots :
        /\ SetPos(observeRaw(Cur, id))
        /\ last' = [Call("observeRaw") EXCEPT !.id = id, !.out = buffer[id]]
        /\ UNCHANGED <<threadvars, regvars, exportvars>>
        /\ UNCHANGED <<bufferSize, buffer, last_sent_pos, no_more_data, index,
                       unreleased>>

(* The reader takes its ids from the unread list (getUnreadRawInfos) *)
GetRaw ==
    \E id \in UnreadSlots :
        /\ index < MaxIndex
        /\ SetPos(getRaw(Cur, id))
        /\ last_sent_pos' = id
        /\ index' = index + 1
        /\ unreleased' = releasedBefore(id)
        /\ last' = [Call("getRaw") EXCEPT !.id = id, !.out = buffer[id]]
        /\ UNCHANGED <<threadvars, regvars, exportvars>>
        /\ UNCHANGED <<bufferSize, buffer, no_more_data>>

GetLastUnreadRaw ==
    LET r == getLastUnreadRaw(Cur)
    IN /\ SetPos(r.s)
       /\ unreleased' = IF r.err = "lock_error"
                        THEN releasedBefore(getLastUnreadPos(Cur)) ELSE unreleased
       /\ last' = [Call("getLastUnreadRaw") EXCEPT !.err = r.err, !.ret = r.ret]
       /\ UNCHANGED <<threadvars, regvars, exportvars>>
       /\ UNCHANGED <<bufferSize, buffer, last_sent_pos, no_more_data, index>>

(* release(): the reader frees the slot it claimed *)
Release ==
    /\ read_pos_used
    /\ SetPos(release(Cur, read_pos))
    /\ unreleased' = releasedThrough(read_pos)
    /\ last' = [Call("release") EXCEPT !.id = read_pos]
    /\ UNCHANGED <<threadvars, regvars, exportvars>>
    /\ UNCHANGED <<bufferSize, buffer, last_sent_pos, no_more_data, index>>

ReleaseId ==
    \E id \in UnreadSlots :
        /\ SetPos(release(Cur, id))
        /\ unreleased' = releasedThrough(id)
        /\ last' = [Call("release_id") EXCEPT !.id = id]
        /\ UNCHANGED <<threadvars, regvars, exportvars>>
        /\ UNCHANGED <<bufferSize, buffer, last_sent_pos, no_more_data, index>>

ReleaseUntil ==
    \E id \in UnreadSlots :
        /\ SetPos(releaseUntil(Cur, id))
        /\ unreleased' = releasedBefore(id)
        /\ last' = [Call("releaseUntil") EXCEPT !.id = id]
        /\ UNCHANGED <<threadvars, regvars, exportvars>>
        /\ UNCHANGED <<bufferSize, buffer, last_sent_pos, no_more_data, index>>

Next ==
    \/ Push
    \/ PushRejected
    \/ SetNoMoreData
    \/ GetRaws
    \/ GetUnreadRawInfos
    \/ GetNextRawInfo
    \/ ObserveRaw
    \/ GetRaw
    \/ GetLastUnreadRaw
    \/ Release
    \/ ReleaseId
    \/ ReleaseUntil

Spec == Init /\ [][Next]_vars

----------------------------------------------------------------------------
(* Range retrieval on a freshly loaded buffer: n < bufferSize readings of
   strictly increasing positive timestamps written from any start slot into a
   buffer of sentinels, nothing released *)

RECURSIVE loaded(_, _, _, _)
loaded(buf, pos, gaps, t) ==
    IF gaps = <<>> THEN buf
    ELSE loaded([buf EXCEPT ![pos] = t + Head(gaps)], (pos + 1) % bufferSize,
                Tail(gaps), t + Head(gaps))

GapSeqs(n) == [1 .. n -> {TsStep, 2 * TsStep}]

InitRange ==
    /\ bufferSize \in 2 .. MaxBufferSize
    /\ \E start \in 0 .. bufferSize - 1, n \in 1 .. bufferSize - 1 :
        \E gaps \in GapSeqs(n) :
            /\ buffer = loaded([i \in 0 .. bufferSize - 1 |-> NoDataTimestamp],
                               start, gaps, 0)
            /\ read_pos = start
            /\ write_pos = (start + n) % bufferSize
            /\ data_count = n
            /\ unreleased = {(start + k) % bufferSize : k \in 0 .. n - 1}
    /\ buffer_full = FALSE
    /\ read_pos_used = FALSE
    /\ last_sent_pos = NoPos
    /\ no_more_data = FALSE
    /\ index = -1
    /\ last = Call("load")
    /\ NoThreads
    /\ NoExporter
    /\ NoRegistry

(* t1 may also lie below the sentinel *)
GetRawsPeek ==
    \E t1 \in QueryTimes \cup {NoDataTimestamp - TsStep}, t2 \in QueryTimes :
        t1 <= t2 /\ GetRawsCall(t1, t2, FALSE)

(* Bounds given in the wrong order *)
GetRawsReversed ==
    \E t1 \in QueryTimes, t2 \in QueryTimes, rel \in BOOLEAN :
        t1 > t2 /\ GetRawsCall(t1, t2, rel)

NextRange ==
    \/ GetRawsPeek
    \/ GetRawsReversed

SpecRange == InitRange /\ [][NextRange]_vars

(* The k-th loaded reading (k = 0 is the first) and the slots of readings a..b *)
ReadingSlot(k) == (read_pos + k + bufferSize) % bufferSize

ReadingSlots(a, b) == [k \in 1 .. (b - a + 1) |-> ReadingSlot(a + k - 1)]

----------------------------------------------------------------------------
(* The same buffer with every capacity from 1 and with the calls that take a
   slot id given any id of the buffer, not only an unread one *)

InitAll ==
    /\ bufferSize \in 1 .. MaxBufferSize
    /\ buffer = [i \in 0 .. bufferSize - 1 |-> NoDataTimestamp]
    /\ write_pos = 0
    /\ read_pos = 0
    /\ buffer_full = FALSE
    /\ read_pos_used = FALSE
    /\ data_count = 0
    /\ last_sent_pos = NoPos
    /\ no_more_data = FALSE
    /\ index = -1
    /\ unreleased = {}
    /\ last = Call("construct")
    /\ NoThreads
    /\ NoExporter
    /\ NoRegistry

GetRawTimestamp ==
    \E id \in Slots :
        /\ last' = [Call("getRawTimestamp") EXCEPT
                        !.id = id, !.out = extractRawTimestamp(buffer, id)]
        /\ UNCHANGED <<threadvars, regvars, exportvars>>
        /\ UNCHANGED <<bufferSize, buffer, write_pos, read_pos, buffer_full,
                       read_pos_used, data_count, last_sent_pos, no_more_data,
                       index, unreleased>>

(* getLastProcessedRaw(): raw = buffer(last_sent_pos).  The constructor does
   not set last_sent_pos: before the first getRaw the index read is whatever
   the memory holds, here any slot. *)
GetLastProcessedRaw ==
    \E pos \in IF last_sent_pos = NoPos THEN Slots ELSE {last_sent_pos} :
        /\ last' = [Call("getLastProcessedRaw") EXCEPT
                        !.id = pos, !.out = buffer[pos]]
        /\ UNCHANGED <<threadvars, regvars, exportvars>>
        /\ UNCHANGED <<bufferSize, buffer, write_pos, read_pos, buffer_full,
                       read_pos_used, data_count, last_sent_pos, no_more_data,
                       index, unreleased>>

GetRawAnyId ==
    \E id \in Slots :
        /\ index < MaxIndex
        /\ SetPos(getRaw(Cur, id))
        /\ last_sent_pos' = id
        /\ index' = index + 1
        /\ unreleased' = releasedBefore(id)
        /\ last' = [Call("getRaw") EXCEPT !.id = id, !.out = buffer[id]]
        /\ UNCHANGED <<threadvars, regvars, exportvars>>
        /\ UNCHANGED <<bufferSize, buffer, no_more_data>>

ReleaseAnyId ==
    \E id \in Slots :
        /\ SetPos(release(Cur, id))
        /\ unreleased' = releasedThrough(id)
        /\ last' = [Call("release_id") EXCEPT !.id = id]
        /\ UNCHANGED <<threadvars, regvars, exportvars>>
        /\ UNCHANGED <<bufferSize, buffer, last_sent_pos, no_more_data, index>>

ReleaseUntilAnyId ==
    \E id \in Slots :
        /\ SetPos(releaseUntil(Cur, id))
        /\ unreleased' = releasedBefore(id)
        /\ last' = [Call("releaseUntil") EXCEPT !.id = id]
        /\ UNCHANGED <<threadvars, regvars, exportvars>>
        /\ UNCHANGED <<bufferSize, buffer, last_sent_pos, no_more_data, index>>

(* Query times that fall between two readings: a t1 equal to a timestamp finds
   the same slots as the half step below it *)
BetweenTimes ==
    {FromStartThreshold} \cup
    {(2 * k - 1) * (TsStep \div 2) : k \in 1 .. MaxPushes + 1}

GetRawsBetween ==
    \E t1 \in BetweenTimes, rel \in BOOLEAN :
        t1 <= LastQueryTime /\ GetRawsCall(t1, LastQueryTime, rel)

(* The stream does not end here: the positions do not depend on no_more_data *)
NextAll ==
    \/ Push
    \/ PushRejected
    \/ GetRawsBetween
    \/ GetUnreadRawInfos
    \/ GetNextRawInfo
    \/ ObserveRaw
    \/ GetRawTimestamp
    \/ GetLastProcessedRaw
    \/ GetRawAnyId
    \/ GetLastUnreadRaw
    \/ Release
    \/ ReleaseAnyId
    \/ ReleaseUntilAnyId

SpecAll == InitAll /\ [][NextAll]_vars

----------------------------------------------------------------------------
(* One producer thread and one consumer thread on the same buffer.  A call is
   cut where it takes or gives back mutex_data and where it touches a slot
   outside of it.  boost::mutex is not recursive; a unique_lock built with
   defer_lock owns the mutex only after its lock(). *)

MaxThreadPushes == 3

(* unique_lock l(mutex_data, defer_lock); if (!locked) l.lock(); *)
ownsAfterEntry(locked) == ~locked

(* unique_lock::unlock() throws boost::lock_error when the lock object owns
   nothing *)
unlock(owns) == IF owns THEN "none" ELSE "lock_error"

(* What a read of the buffer can see while the producer is storing into a
   slot: the read of that slot is not ordered with the store, so it yields the
   old or the new content *)
Seen ==
    IF writing = NoPos THEN {buffer}
    ELSE {buffer, [buffer EXCEPT ![writing] = Newest + TsStep]}

RECURSIVE dichotomyProbes(_, _, _, _)
dichotomyProbes(buf, i_left, i_right, t) ==
    IF i_left = i_right THEN {}
    ELSE LET j == (i_left + i_right) \div 2
             i == j % bufferSize
         IN {i} \cup IF reaches(extractRawTimestamp(buf, i), t)
                     THEN dichotomyProbes(buf, i_left, j, t)
                     ELSE dichotomyProbes(buf, j + 1, i_right, t)

(* Slots whose timestamp getRaws reads: both dichotomies, buffer(i) for
   no_larger and, when no_larger, buffer(i1) *)
getRawsProbes(s, buf, t1, t2) ==
    LET first_left == dichotomy(buf, s.write_pos, s.write_pos + bufferSize - 1, t1)
        i          == first_left % bufferSize
        no_larger  == extractRawTimestamp(buf, i) < t1
    IN dichotomyProbes(buf, s.write_pos, s.write_pos + bufferSize - 1, t1)
       \cup {i}
       \cup (IF no_larger THEN {predecessor(i, t1)}
             ELSE dichotomyProbes(buf, first_left,
                                  s.write_pos + bufferSize - 1, t2))

ThreadQueryTimes == {FromStartThreshold, TsStep + TsStep \div 2}

At(t, label) == pc' = [pc EXCEPT ![t] = label]

InitThreads ==
    /\ bufferSize \in 2 .. MaxBufferSize
    /\ buffer = [i \in 0 .. bufferSize - 1 |-> NoDataTimestamp]
    /\ write_pos = 0
    /\ read_pos = 0
    /\ buffer_full = FALSE
    /\ read_pos_used = FALSE
    /\ data_count = 0
    /\ last_sent_pos = NoPos
    /\ no_more_data = FALSE
    /\ index = -1
    /\ unreleased = {}
    /\ last = Call("construct")
    /\ NoThreads
    /\ NoExporter
    /\ NoRegistry

(* Producer: getWritePos() returns; isFull() takes and gives back mutex_data.
   (When the buffer is full it throws and the driver comes back later.)  In
   this specification last is the call record of the consumer thread. *)
P_GetWritePos ==
    /\ pc["producer"] = "idle"
    /\ mutex_data = Nobody
    /\ Newest + TsStep <= MaxThreadPushes * TsStep
    /\ getWritePos(Cur).err = "none"
    /\ At("producer", "write")
    /\ probed' = {}
    /\ UNCHANGED <<mutex_data, writing, lock_fault, regvars, exportvars, last>>
    /\ UNCHANGED <<bufferSize, buffer, write_pos, read_pos, buffer_full,
                   read_pos_used, data_count, last_sent_pos, no_more_data, index,
                   unreleased>>

(* Producer: the driver starts to store the reading into buffer(write_pos),
   mutex_data not held *)
P_WriteBegin ==
    /\ pc["producer"] = "write"
    /\ At("producer", "writing")
    /\ writing' = write_pos
    /\ probed' = {}
    /\ UNCHANGED <<mutex_data, lock_fault, regvars, exportvars, last>>
    /\ UNCHANGED <<bufferSize, buffer, write_pos, read_pos, buffer_full,
                   read_pos_used, data_count, last_sent_pos, no_more_data, index,
                   unreleased>>

(* Producer: the store is complete *)
P_WriteEnd ==
    /\ pc["producer"] = "writing"
    /\ At("producer", "inc")
    /\ buffer' = [buffer EXCEPT ![writing] = Newest + TsStep]
    /\ unreleased' = unreleased \cup {writing}
    /\ writing' = NoPos
    /\ probed' = {}
    /\ UNCHANGED <<mutex_data, lock_fault, regvars, exportvars, last>>
    /\ UNCHANGED <<bufferSize, write_pos, read_pos, buffer_full, read_pos_used,
                   data_count, last_sent_pos, no_more_data, index>>

(* Producer: incWritePos() under mutex_data *)
P_IncWritePos ==
    /\ pc["producer"] = "inc"
    /\ mutex_data = Nobody
    /\ At("producer", "idle")
    /\ SetPos(incWritePos(Cur))
    /\ probed' = {}
    /\ UNCHANGED <<mutex_data, writing, lock_fault, regvars, exportvars, last>>
    /\ UNCHANGED <<bufferSize, buffer, last_sent_pos, no_more_data, index,
                   unreleased>>

(* Consumer: getRaws() takes mutex_data at line 282 *)
T_GetRawsLock ==
    \E t1 \in ThreadQueryTimes, rel \in BOOLEAN :
        /\ pc["consumer"] = "idle"
        /\ mutex_data = Nobody
        /\ mutex_data' = "consumer"
        /\ At("consumer", "getRaws")
        /\ last' = [Call("getRaws") EXCEPT !.t1 = t1, !.t2 = LastQueryTime,
                                           !.rel = rel, !.err = "running"]
        /\ probed' = {}
        /\ UNCHANGED <<writing, lock_fault, regvars, exportvars>>
        /\ UNCHANGED <<bufferSize, buffer, write_pos, read_pos, buffer_full,
                       read_pos_used, data_count, last_sent_pos, no_more_data,
                       index, unreleased>>

(* Consumer: the searches of getRaws, read_pos = i1 and l.unlock() (line 321);
   when it throws at line 301 the unwinding gives mutex_data back *)
T_GetRawsBody ==
    \E buf \in Seen :
        LET r == getRaws(Cur, buf, last.t1, last.t2, last.rel)
        IN /\ pc["consumer"] = "getRaws"
           /\ SetPos(r.s)
           /\ unreleased' = IF r.released THEN releasedBefore(r.i1) ELSE unreleased
           /\ probed' = getRawsProbes(Cur, buf, last.t1, last.t2)
           /\ mutex_data' = Nobody
           /\ At("consumer", "idle")
           /\ last' = [last EXCEPT !.err = r.err, !.view = r.view]
           /\ UNCHANGED <<writing, lock_fault, regvars, exportvars>>
           /\ UNCHANGED <<bufferSize, buffer, last_sent_pos, no_more_data, index>>

(* Consumer: getRaw(id), first releaseUntil(id) under mutex_data *)
T_GetRawRelease ==
    \E id \in UnreadSlots :
        /\ pc["consumer"] = "idle"
        /\ mutex_data = Nobody
        /\ index < MaxIndex
        /\ lock_fault' = IF unlock(ownsAfterEntry(FALSE)) = "none"
                         THEN lock_fault ELSE "unlock_unowned"
        /\ SetPos(releaseUntil(Cur, id))
        /\ unreleased' = releasedBefore(id)
        /\ At("consumer", "getRaw")
        /\ last' = [Call("getRaw") EXCEPT !.id = id, !.err = "running"]
        /\ probed' = {}
        /\ UNCHANGED <<mutex_data, writing, regvars, exportvars>>
        /\ UNCHANGED <<bufferSize, buffer, last_sent_pos, no_more_data, index>>

(* Consumer: getRaw(id), then raw = buffer[id] with mutex_data not held, and
   the index notification *)
T_GetRawCopy ==
    \E buf \in Seen :
        /\ pc["consumer"] = "getRaw"
        /\ probed' = {last.id}
        /\ last_sent_pos' = last.id
        /\ index' = index + 1
        /\ At("consumer", "idle")
        /\ last' = [last EXCEPT !.err = "none", !.out = buf[last.id]]
        /\ UNCHANGED <<mutex_data, writing, lock_fault, regvars, exportvars>>
        /\ UNCHANGED <<bufferSize, buffer, write_pos, read_pos, buffer_full,
                       read_pos_used, data_count, no_more_data, unreleased>>

(* Consumer: observeRaw(id) and getRawTimestamp(id) read slot id with
   mutex_data not held; the ids come from the unread list *)
T_ObserveRaw ==
    \E id \in UnreadSlots, buf \in Seen, op \in {"observeRaw", "getRawTimestamp"} :
        /\ pc["consumer"] = "idle"
        /\ probed' = {id}
        /\ last' = [Call(op) EXCEPT !.id = id, !.out = buf[id]]
        /\ UNCHANGED <<mutex_data, pc, writing, lock_fault, regvars, exportvars>>
        /\ UNCHANGED <<bufferSize, buffer, write_pos, read_pos, buffer_full,
                       read_pos_used, data_count, last_sent_pos, no_more_data,
                       index, unreleased>>

(* Consumer: getUnreadRawInfos(); isEmpty() and getLastUnreadPos() take and
   give back mutex_data, the walk reads the listed slots outside of it *)
T_GetUnreadRawInfos ==
    /\ pc["consumer"] = "idle"
    /\ mutex_data = Nobody
    /\ probed' = UnreadSlots
    /\ last' = [Call("getUnreadRawInfos") EXCEPT
                    !.view = getUnreadRawInfos(Cur).available,
                    !.ret = getUnreadRawInfos(Cur).ret]
    /\ UNCHANGED <<mutex_data, pc, writing, lock_fault, regvars, exportvars>>
    /\ UNCHANGED <<bufferSize, buffer, write_pos, read_pos, buffer_full,
                   read_pos_used, data_count, last_sent_pos, no_more_data, index,
                   unreleased>>

(* Consumer: getLastUnreadRaw() takes mutex_data at line 414 *)
T_GetLastUnreadRawLock ==
    /\ pc["consumer"] = "idle"
    /\ mutex_data = Nobody
    /\ mutex_data' = "consumer"
    /\ At("consumer", "getLastUnreadRaw")
    /\ last' = [Call("getLastUnreadRaw") EXCEPT !.err = "running"]
    /\ probed' = {}
    /\ UNCHANGED <<writing, lock_fault, regvars, exportvars>>
    /\ UNCHANGED <<bufferSize, buffer, write_pos, read_pos, buffer_full,
                   read_pos_used, data_count, last_sent_pos, no_more_data, index,
                   unreleased>>

(* Consumer: the body of getLastUnreadRaw().  With new data it calls
   releaseUntil(id, true), whose lock object owns nothing when it reaches
   l.unlock(); the exception unwinds through the lock of line 414, which gives
   mutex_data back. *)
T_GetLastUnreadRawBody ==
    LET r == getLastUnreadRaw(Cur)
        thrown == IF data_count > 0 THEN unlock(ownsAfterEntry(TRUE)) ELSE "none"
    IN /\ pc["consumer"] = "getLastUnreadRaw"
       /\ SetPos(r.s)
       /\ unreleased' = IF data_count > 0
                        THEN releasedBefore(getLastUnreadPos(Cur)) ELSE unreleased
       /\ lock_fault' = IF thrown = "none" THEN lock_fault ELSE "unlock_unowned"
       /\ mutex_data' = Nobody
       /\ At("consumer", "idle")
       /\ last' = [last EXCEPT !.err = r.err, !.ret = r.ret]
       /\ probed' = {}
       /\ UNCHANGED <<writing, regvars, exportvars>>
       /\ UNCHANGED <<bufferSize, buffer, last_sent_pos, no_more_data, index>>

(* Consumer: release() under mutex_data *)
T_Release ==
    /\ pc["consumer"] = "idle"
    /\ mutex_data = Nobody
    /\ read_pos_used
    /\ lock_fault' = IF unlock(ownsAfterEntry(FALSE)) = "none"
                     THEN lock_fault ELSE "unlock_unowned"
    /\ SetPos(release(Cur, read_pos))
    /\ unreleased' = releasedThrough(read_pos)
    /\ last' = [Call("release") EXCEPT !.id = read_pos]
    /\ probed' = {}
    /\ UNCHANGED <<mutex_data, pc, writing, regvars, exportvars>>
    /\ UNCHANGED <<bufferSize, buffer, last_sent_pos, no_more_data, index>>

NextThreads ==
    \/ P_GetWritePos
    \/ P_WriteBegin
    \/ P_WriteEnd
    \/ P_IncWritePos
    \/ T_GetRawsLock
    \/ T_GetRawsBody
    \/ T_GetRawRelease
    \/ T_GetRawCopy
    \/ T_ObserveRaw
    \/ T_GetUnreadRawInfos
    \/ T_GetLastUnreadRawLock
    \/ T_GetLastUnreadRawBody
    \/ T_Release

SpecThreads == InitThreads /\ [][NextThreads]_vars

----------------------------------------------------------------------------
(* HardwareSensorProprioAbstract: the quantity registry *)

MaxCalls == 2

(* static const int QuantityDataSizes[qNQuantity]: the table is declared at
   line 220 and defined outside these headers; the widths are the components
   the documentation of the enumeration lists *)
QuantityDataSizes ==
    [q \in Quantity |-> IF q = "qOriQuat" THEN 4
                        ELSE IF q = "qBundleobs" THEN 6 ELSE 3]

Reg == [quantities |-> quantities, data_size |-> data_size]

addQuantity(r, quantity) ==
    [quantities |-> [r.quantities EXCEPT ![quantity] = r.data_size + 1],
     data_size |-> r.data_size + QuantityDataSizes[quantity]]

dataSize(r) == r.data_size

(* readingSize with the division applied to data_size + 3 alone *)
readingSize_early(ct, r) ==
    CASE ct = "ctNone" -> 1 + r.data_size
      [] ct = "ctVar" -> 1 + r.data_size * 2
      [] ct = "ctFull" -> 1 + r.data_size * ((r.data_size + 3) \div 2)
      [] OTHER -> 0

readingSize(ct, r) ==
    CASE ct = "ctNone" -> 1 + r.data_size
      [] ct = "ctVar" -> 1 + r.data_size * 2
      [] ct = "ctFull" -> 1 + (r.data_size * (r.data_size + 3)) \div 2
      [] OTHER -> 0

(* Constructor: the ring of capacity bufferSize, cov_type = covType,
   clearQuantities() *)
InitRegistry ==
    /\ bufferSize = MaxBufferSize
    /\ buffer = [i \in 0 .. bufferSize - 1 |-> NoDataTimestamp]
    /\ write_pos = 0
    /\ read_pos = 0
    /\ buffer_full = FALSE
    /\ read_pos_used = FALSE
    /\ data_count = 0
    /\ last_sent_pos = NoPos
    /\ no_more_data = FALSE
    /\ index = -1
    /\ unreleased = {}
    /\ last = Call("construct")
    /\ NoThreads
    /\ NoExporter
    /\ cov_type \in CovType
    /\ quantities = clearQuantities.quantities
    /\ data_size = clearQuantities.data_size
    /\ registered = <<>>

ringvars ==
    <<bufferSize, buffer, write_pos, read_pos, buffer_full, read_pos_used,
      data_count, last_sent_pos, no_more_data, index, unreleased, last>>

AddQuantity ==
    \E quantity \in Quantity :
        /\ Len(registered) < MaxCalls
        /\ SetRegistry(addQuantity(Reg, quantity))
        /\ registered' = Append(registered, quantity)
        /\ UNCHANGED <<cov_type, ringvars, threadvars, exportvars>>

ClearQuantities ==
    /\ registered # <<>>
    /\ SetRegistry(clearQuantities)
    /\ registered' = <<>>
    /\ UNCHANGED <<cov_type, ringvars, threadvars, exportvars>>

NextRegistry ==
    \/ AddQuantity
    \/ ClearQuantities

SpecRegistry == InitRegistry /\ [][NextRegistry]_vars

----------------------------------------------------------------------------
(* ExporterSocket (include/rtslam/exporterSocket.hpp): the thread sendTask
   writes the exported state to the connected clients each time
   exportCurrentState() signals condition_send, until stop() signals it.  In
   this specification mutex_data is ExporterSocket::mutex_data and pc gives the
   position of the exporter's threads. *)

MaxExports == 2
MaxClients == 2

ExporterThreads == {"sendTask", "slam"}

(* kernel::VariableCondition<int>: the value var and a mutex m of its own;
   setAndNotify(v) assigns var under m and wakes the waiting threads *)
setAndNotify(c, v) == [c EXCEPT !.var = v]

(* wait(boost::lambda::_1 != 0, false): returns once var is not 0, still
   holding m *)
wait(c, t) == [c EXCEPT !.m = t]

InitExporter ==
    /\ bufferSize = MaxBufferSize
    /\ buffer = [i \in 0 .. bufferSize - 1 |-> NoDataTimestamp]
    /\ write_pos = 0
    /\ read_pos = 0
    /\ buffer_full = FALSE
    /\ read_pos_used = FALSE
    /\ data_count = 0
    /\ last_sent_pos = NoPos
    /\ no_more_data = FALSE
    /\ index = -1
    /\ unreleased = {}
    /\ last = Call("construct")
    /\ NoRegistry
    /\ mutex_data = Nobody
    /\ pc = [sendTask |-> "wait", slam |-> "idle"]
    /\ writing = NoPos
    /\ probed = {}
    /\ lock_fault = "none"
    /\ NoExporter

sensorvars ==
    <<bufferSize, buffer, write_pos, read_pos, buffer_full, read_pos_used,
      data_count, last_sent_pos, no_more_data, index, unreleased, writing,
      probed, lock_fault, regvars>>

(* connectionTask: a client is accepted and pushed into socks under mutex_data *)
C_Accept ==
    /\ socks < MaxClients
    /\ mutex_data = Nobody
    /\ socks' = socks + 1
    /\ UNCHANGED <<sensorvars, last, mutex_data, pc, condition_send, stop, message,
                   sent, stopped>>

(* sendTask, line 56: condition_send.wait(_1 != 0, false) *)
S_Wait ==
    /\ pc["sendTask"] = "wait"
    /\ condition_send.var # 0
    /\ condition_send.m = Nobody
    /\ condition_send' = wait(condition_send, "sendTask")
    /\ At("sendTask", "check")
    /\ UNCHANGED <<sensorvars, last, mutex_data, stop, socks, message, sent,
                   stopped>>

(* sendTask, lines 57-60: stop is set when var < 0, var is reset to 0,
   condition_send is unlocked, and the loop is left when stop is set *)
S_Check ==
    /\ pc["sendTask"] = "check"
    /\ stop' = IF condition_send.var < 0 THEN TRUE ELSE stop
    /\ condition_send' = [var |-> 0, m |-> Nobody]
    /\ At("sendTask", IF stop' THEN "done" ELSE "lock")
    /\ UNCHANGED <<sensorvars, last, mutex_data, socks, message, sent, stopped>>

(* sendTask, line 62: mutex_data is taken *)
S_Lock ==
    /\ pc["sendTask"] = "lock"
    /\ mutex_data = Nobody
    /\ mutex_data' = "sendTask"
    /\ At("sendTask", "send")
    /\ UNCHANGED <<sensorvars, last, condition_send, stop, socks, message, sent,
                   stopped>>

(* sendTask, lines 63-75: message is written to every client, the clients
   whose write throws are erased from socks, mutex_data is given back *)
S_Send ==
    \E kept \in 0 .. socks :
        /\ pc["sendTask"] = "send"
        /\ socks' = kept
        /\ sent' = IF kept > 0 THEN message ELSE sent
        /\ mutex_data' = Nobody
        /\ At("sendTask", "wait")
        /\ last' = [Call("sendTask") EXCEPT !.ret = kept, !.out = message]
        /\ UNCHANGED <<sensorvars, condition_send, stop, message, stopped>>

(* exportCurrentState(), line 96: mutex_data.try_lock() succeeds *)
E_TryLock ==
    /\ pc["slam"] = "idle"
    /\ message < MaxExports
    /\ mutex_data = Nobody
    /\ mutex_data' = "slam"
    /\ At("slam", "fill")
    /\ UNCHANGED <<sensorvars, last, condition_send, stop, socks, message, sent,
                   stopped>>

(* exportCurrentState(), lines 123-124: try_lock() fails, nothing is exported *)
E_Busy ==
    /\ pc["slam"] = "idle"
    /\ message < MaxExports
    /\ mutex_data # Nobody
    /\ last' = [Call("exportCurrentState") EXCEPT !.err = "busy"]
    /\ UNCHANGED <<sensorvars, mutex_data, pc, exportvars>>

(* exportCurrentState(), lines 107-121: message is filled with the current
   state and mutex_data is given back *)
E_Fill ==
    /\ pc["slam"] = "fill"
    /\ message' = message + 1
    /\ mutex_data' = Nobody
    /\ At("slam", "notify")
    /\ UNCHANGED <<sensorvars, last, condition_send, stop, socks, sent, stopped>>

(* exportCurrentState(), line 122: condition_send.setAndNotify(1) *)
E_Notify ==
    /\ pc["slam"] = "notify"
    /\ condition_send.m = Nobody
    /\ condition_send' = setAndNotify(condition_send, 1)
    /\ At("slam", "idle")
    /\ last' = [Call("exportCurrentState") EXCEPT !.out = message]
    /\ UNCHANGED <<sensorvars, mutex_data, stop, socks, message, sent, stopped>>

(* stop(), line 127, called once from another thread:
   condition_send.setAndNotify(-1) *)
X_Stop ==
    /\ ~stopped
    /\ condition_send.m = Nobody
    /\ condition_send' = setAndNotify(condition_send, -1)
    /\ stopped' = TRUE
    /\ last' = Call("stop")
    /\ UNCHANGED <<sensorvars, mutex_data, pc, stop, socks, message, sent>>

sendTask == S_Wait \/ S_Check \/ S_Lock \/ S_Send

NextExporter ==
    \/ C_Accept
    \/ S_Wait
    \/ S_Check
    \/ S_Lock
    \/ S_Send
    \/ E_TryLock
    \/ E_Busy
    \/ E_Fill
    \/ E_Notify
    \/ X_Stop

(* The threads are scheduled: sendTask runs whenever it can, and a call of
   exportCurrentState() that holds mutex_data or is about to notify goes on *)
SpecExporter ==
    /\ InitExporter
    /\ [][NextExporter]_vars
    /\ WF_vars(sendTask)
    /\ WF_vars(E_Fill)
    /\ WF_vars(E_Notify)

----------------------------------------------------------------------------
(* Claims *)

(* C1: occupancy invariant.  In every reachable state isFull() and isEmpty()
   are not both true, and isFull() is true exactly when the number of
   pushed-and-not-yet-released readings (a claimed slot counts as unreleased)
   equals bufferSize. *)
C1_Occupancy ==
    /\ ~(isFull(Cur) /\ isEmpty(Cur))
    /\ (isFull(Cur) <=> Cardinality(unreleased) = bufferSize)

(* C2: no silent drop.  A push that succeeds never writes a slot whose reading
   has not been explicitly released, nor a reading of the view that the
   preceding getRaws(release = true) call returned. *)
C2_NoSilentDrop ==
    [][last'.op = "push" =>
        /\ write_pos \notin unreleased
        /\ (last.op = "getRaws" /\ last.rel) =>
               \A k \in 1 .. Len(last.view) :
                   buffer[last.view[k]] > 0 => last.view[k] # write_pos]_vars

(* C3: monotonic release.  No call other than a push moves read_pos anywhere
   but forward towards write_pos, and no released slot comes back into the
   window of unreleased slots. *)
C3_MonotonicRelease ==
    [][last'.op # "push" =>
        /\ Window(Cur') \subseteq Window(Cur)
        /\ (read_pos' = read_pos \/ read_pos' \in Window(Cur) \cup {write_pos})]_vars

(* C5: push overflow.  When isFull() the producer's getWritePos() is rejected
   with a BufferOverflow error and positions, counter and slots are unchanged;
   when not full it returns write_pos without error. *)
C5_PushOverflow ==
    [][/\ last'.op = "getWritePos" =>
            /\ isFull(Cur)
            /\ last'.err = "BUFFER_OVERFLOW"
            /\ UNCHANGED <<write_pos, read_pos, buffer_full, data_count, buffer>>
       /\ last'.op = "push" => (~isFull(Cur) /\ last'.id = write_pos)]_vars

(* C6 as amended: getRaws with t1 > 0 raises BUFFER_OVERFLOW exactly when the
   slot at write_pos, the oldest of the ring, holds a reading whose timestamp
   is >= t1 (so only once the buffer has wrapped, and also when t1 equals the
   oldest retained timestamp); read_pos and buffer_full are then unchanged. *)
C6_LostHistory ==
    [][(last'.op = "getRaws" /\ last'.t1 > 0) =>
        /\ last'.err = "BUFFER_OVERFLOW" <=> buffer[write_pos] >= last'.t1
        /\ last'.err = "BUFFER_OVERFLOW" =>
               (read_pos' = read_pos /\ buffer_full' = buffer_full)
        /\ buffer[write_pos] = NoDataTimestamp => last'.err = "none"]_vars

(* C6 witness: a getRaws call on a wrapped buffer was refused for lost history,
   with t1 exactly the oldest retained timestamp *)
C6_Witness ==
    /\ last.op = "getRaws"
    /\ last.err = "BUFFER_OVERFLOW"
    /\ last.t1 = buffer[write_pos]

Retained == {buffer[x] : x \in Slots} \ {NoDataTimestamp}

(* C6 as stated: getRaws with t1 > 0 raises BUFFER_OVERFLOW exactly when t1 is
   older than the oldest retained reading, wrapped or not, leaving read_pos and
   buffer_full unchanged, and never when a retained reading with timestamp
   <= t1 exists. *)
C6_Original ==
    [][(last'.op = "getRaws" /\ last'.t1 > 0) =>
        /\ last'.err = "BUFFER_OVERFLOW" <=>
               (Retained # {} /\ \A ts \in Retained : last'.t1 < ts)
        /\ last'.err = "BUFFER_OVERFLOW" =>
               (read_pos' = read_pos /\ buffer_full' = buffer_full)
        /\ (\E ts \in Retained : ts <= last'.t1) =>
               last'.err # "BUFFER_OVERFLOW"]_vars

InfoOps == {"getUnreadRawInfos", "getNextRawInfo"}

EndOfStream == no_more_data /\ isEmpty(Cur)

(* C7: status codes and end of stream.  getUnreadRawInfos and getNextRawInfo
   return 0 when an unread reading exists, -1 when the buffer is empty and
   no_more_data is false, -2 when it is empty and no_more_data is true; and once
   no_more_data is set on an empty buffer every later call returns -2 (the calls
   may come in any state, so the end-of-stream condition has to persist). *)
C7_StatusCodes ==
    [][/\ last'.op \in InfoOps =>
            last'.ret = IF ~isEmpty(Cur) THEN 0
                        ELSE IF no_more_data THEN -2 ELSE -1
       /\ EndOfStream => EndOfStream']_vars

(* C8: idempotent peek.  observeRaw(id, out) copies slot id and changes no
   position, counter or index; slots change only by a push, so repeated peeks
   with no push in between return the same reading; the unread list reported
   by getUnreadRawInfos is the same after the call as before. *)
C8_IdempotentPeek ==
    [][/\ last'.op = "observeRaw" =>
            /\ last'.out = buffer[last'.id]
            /\ UNCHANGED <<write_pos, read_pos, read_pos_used, buffer_full,
                           data_count, last_sent_pos, index>>
            /\ getUnreadRawInfos(Cur').available = getUnreadRawInfos(Cur).available
       /\ last'.op # "push" => buffer' = buffer]_vars

(* C8 witness: a reading was peeked while the reader holds a claimed slot and
   unread readings remain *)
C8_Witness ==
    /\ last.op = "observeRaw"
    /\ last.out > 0
    /\ read_pos_used
    /\ UnreadSlots # {}

(* What getRaw(id, out) does besides releasing *)
GetRawCopies ==
    /\ last'.out = buffer[last'.id]
    /\ last_sent_pos' = last'.id
    /\ index' = index + 1
    /\ getFirstUnreadPos(Cur') = (last'.id + 1) % bufferSize

(* C9 as amended: getRaw(id, out) for an unread slot id copies slot id, releases
   every slot older than id but not id itself (read_pos = id is claimed and
   stays protected from the producer until release()), makes id+1 modulo
   bufferSize the first unread slot and increments the index by 1. *)
C9_GetRaw ==
    [][last'.op = "getRaw" =>
        /\ GetRawCopies
        /\ read_pos' = last'.id /\ read_pos_used'
        /\ last'.id \in Window(Cur')
        /\ \A x \in Slots : age(x) < age(last'.id) => x \notin Window(Cur')]_vars

(* C9 witness: getRaw took the oldest slot of a full buffer, the slot the
   producer would write next *)
C9_Witness ==
    /\ last.op = "getRaw"
    /\ last.out > 0
    /\ write_pos = last.id
    /\ isFull(Cur)

(* C9 as stated: getRaw(id, out) copies slot id, releases every slot up to and
   including id, so that id itself is writable by the producer, makes id+1 the
   first unread slot and increments the index by 1. *)
C9_Original ==
    [][last'.op = "getRaw" =>
        /\ GetRawCopies
        /\ \A x \in Slots : age(x) <= age(last'.id) => x \notin Window(Cur')]_vars

(* C10: getLastUnreadRaw(out), when k >= 1 readings were pushed since the
   previous call, returns k-1, copies the newest reading, releases everything
   through it, resets data_count and increments the index; with no new reading
   it changes no position and returns -2 if no_more_data is set, else -1. *)
C10_GetLastUnreadRaw ==
    [][last'.op = "getLastUnreadRaw" =>
        IF data_count >= 1
        THEN /\ last'.err = "none"
             /\ last'.ret = data_count - 1
             /\ last'.out = buffer[getLastUnreadPos(Cur)]
             /\ data_count' = 0
             /\ index' = index + 1
             /\ isEmpty(Cur')
        ELSE /\ UNCHANGED <<write_pos, read_pos, buffer_full, read_pos_used>>
             /\ last'.ret = IF no_more_data THEN -2 ELSE -1]_vars

(* C13: full buffer recovery.  While the buffer holds bufferSize unreleased
   readings no push succeeds; releasing the oldest slot k of a full buffer
   makes the next push succeed and write slot k; observeRaw and
   getRaws(release = false) on a full buffer leave it full. *)
C13_FullRecovery ==
    [][/\ unreleased = Slots => last'.op # "push"
       /\ (isFull(Cur) /\ last'.op \in {"release", "release_id"}
                       /\ last'.id = write_pos) =>
              (getWritePos(Cur').err = "none" /\ getWritePos(Cur').ret = last'.id)
       /\ (isFull(Cur) /\ (last'.op = "observeRaw"
                            \/ (last'.op = "getRaws" /\ ~last'.rel))) =>
              isFull(Cur')]_vars

(* C19: getRaws release bound.  When getRaws(t1, t2, release = true) returns a
   view that is not empty, read_pos is afterwards the first slot of the view,
   so that no reading of the view counts as released: the producer may write
   none of them before a further release; when it returns the empty view or
   raises an error read_pos is unchanged. *)
C19_ReleaseBound ==
    [][(last'.op = "getRaws" /\ last'.rel) =>
        IF last'.err = "none" /\ last'.view # <<>>
        THEN /\ read_pos' = last'.view[1]
             /\ \A k \in 1 .. Len(last'.view) :
                    buffer[last'.view[k]] > 0 => last'.view[k] \in Window(Cur')
        ELSE read_pos' = read_pos]_vars

(* C20: the consumed count is monotonic.  index is -1 after construction, is
   incremented by exactly 1 by each getRaw and by each getLastUnreadRaw that
   found new data, is changed by no other call, and never decreases. *)
C20_ConsumedCount ==
    [][/\ last.op = "construct" => index = -1
       /\ last'.op = "getRaw" => index' = index + 1
       /\ last'.op = "getLastUnreadRaw" =>
              index' = IF data_count >= 1 THEN index + 1 ELSE index
       /\ last'.op \notin {"getRaw", "getLastUnreadRaw"} => index' = index
       /\ index' >= index]_vars

(* No slot holds a reading: every slot still has the sentinel of initData *)
NoReading == \A x \in Slots : buffer[x] = NoDataTimestamp

(* C21: empty view means no data.  getRaws(t1, t2, release) with
   0 < t1 <= t2 returns the empty view, without error, when no reading has
   been pushed yet, and only then: once at least one reading is stored, a call
   that raises no error returns a view that is not empty. *)
C21_EmptyView ==
    [][(last'.op = "getRaws" /\ 0 < last'.t1 /\ last'.t1 <= last'.t2) =>
        /\ NoReading => (last'.err = "none" /\ last'.view = <<>>)
        /\ (~NoReading /\ last'.err = "none") => last'.view # <<>>]_vars

----------------------------------------------------------------------------
(* Claims on every capacity and any slot id (SpecAll) *)

(* Number of slots from getFirstUnreadPos() forward to getLastUnreadPos() *)
UnreadCount(s) ==
    LET d == (s.write_pos - getFirstUnreadPos(s) + bufferSize) % bufferSize
    IN IF d = 0 THEN bufferSize ELSE d

(* C14: getUnreadRawInfos lists exactly the unread readings.  On a buffer that
   is not empty the list goes from getFirstUnreadPos() to getLastUnreadPos(),
   forward with wrap-around, each slot once and oldest first: its length is the
   number of unread slots, between 1 and bufferSize, and consecutive ids
   differ by 1 modulo bufferSize, whatever read_pos and write_pos are. *)
C14_UnreadList ==
    (last.op = "getUnreadRawInfos" /\ ~isEmpty(Cur)) =>
        /\ last.ret = 0
        /\ Len(last.view) = UnreadCount(Cur)
        /\ Len(last.view) \in 1 .. bufferSize
        /\ last.view[1] = getFirstUnreadPos(Cur)
        /\ last.view[Len(last.view)] = getLastUnreadPos(Cur)
        /\ \A k \in 1 .. Len(last.view) - 1 :
               last.view[k + 1] = (last.view[k] + 1) % bufferSize
        /\ \A j, k \in 1 .. Len(last.view) :
               j # k => last.view[j] # last.view[k]

(* C14 witness: the list of a full buffer whose read_pos is claimed, wrapping
   past index 0 *)
C14_Witness ==
    /\ last.op = "getUnreadRawInfos"
    /\ isFull(Cur)
    /\ read_pos_used
    /\ Len(last.view) >= 2
    /\ last.view[1] > last.view[Len(last.view)]

(* C17: position bounds.  In every state reached from construction with
   bufferSize >= 1 by pushes and by release(id), releaseUntil(id), getRaw(id),
   getRaws and release() with ids in [0, bufferSize), write_pos and read_pos
   are in [0, bufferSize), and so are the values of getFirstUnreadPos() and
   getLastUnreadPos(). *)
C17_PositionBounds ==
    /\ write_pos \in Slots
    /\ read_pos \in Slots
    /\ getFirstUnreadPos(Cur) \in Slots
    /\ getLastUnreadPos(Cur) \in Slots

(* C17 witness: getRaw claimed the last slot while write_pos is back at 0, so
   that getFirstUnreadPos() and getLastUnreadPos() both wrap *)
C17_Witness ==
    /\ last.op = "getRaw"
    /\ bufferSize >= 2
    /\ read_pos = bufferSize - 1
    /\ read_pos_used
    /\ write_pos = 0
    /\ getFirstUnreadPos(Cur) = 0
    /\ getLastUnreadPos(Cur) = bufferSize - 1

ReleaseOps == {"release", "release_id", "releaseUntil", "getRaw"}

ReadOnlyOps ==
    {"getUnreadRawInfos", "getNextRawInfo", "getRawTimestamp",
     "getLastProcessedRaw"}

(* C18: writer/reader separation.  A push (incWritePos) advances write_pos by
   one slot modulo bufferSize, adds 1 to data_count and leaves read_pos and
   read_pos_used alone; release(id), releaseUntil(id), getRaw(id), release()
   and getRaws(release = true) leave write_pos and every slot alone;
   getRaws(release = false), getUnreadRawInfos, getNextRawInfo,
   getRawTimestamp and getLastProcessedRaw change none of write_pos, read_pos
   and buffer_full. *)
C18_Separation ==
    [][/\ last'.op = "push" =>
            /\ write_pos' = (write_pos + 1) % bufferSize
            /\ data_count' = data_count + 1
            /\ UNCHANGED <<read_pos, read_pos_used>>
       /\ (last'.op \in ReleaseOps \/ (last'.op = "getRaws" /\ last'.rel)) =>
            UNCHANGED <<write_pos, buffer>>
       /\ (last'.op \in ReadOnlyOps \/ (last'.op = "getRaws" /\ ~last'.rel)) =>
            UNCHANGED <<write_pos, read_pos, buffer_full>>]_vars

(* C18 witness: getRaws(release = false) returned a view that does not start
   at read_pos, on a buffer whose write_pos has wrapped *)
C18_Witness ==
    /\ last.op = "getRaws"
    /\ ~last.rel
    /\ Len(last.view) >= 2
    /\ last.view[1] # read_pos
    /\ buffer[write_pos] > 0

----------------------------------------------------------------------------
(* Claims on the quantity registry (SpecRegistry) *)

RECURSIVE SumWidths(_)
SumWidths(calls) ==
    IF calls = <<>> THEN 0
    ELSE QuantityDataSizes[Head(calls)] + SumWidths(Tail(calls))

(* C15: reading size.  After clearQuantities and any sequence of addQuantity
   calls dataSize() is the sum d of the data widths of the quantities
   registered by these calls, and readingSize() is 1+d for ctNone, 1+2d for
   ctVar and 1+d(d+3)/2 for ctFull; position then quaternion orientation with
   ctFull give dataSize() = 7 and readingSize() = 36. *)
C15_ReadingSize ==
    LET d == SumWidths(registered)
    IN /\ dataSize(Reg) = d
       /\ cov_type = "ctNone" => readingSize(cov_type, Reg) = 1 + d
       /\ cov_type = "ctVar" => readingSize(cov_type, Reg) = 1 + d + d
       /\ cov_type = "ctFull" => 2 * (readingSize(cov_type, Reg) - 1) = d * (d + 3)
       /\ (registered = <<"qPos", "qOriQuat">> /\ cov_type = "ctFull") =>
              (dataSize(Reg) = 7 /\ readingSize(cov_type, Reg) = 36)

(* C15 witness: position and quaternion orientation registered with the full
   covariance, the quaternion at offset 4 *)
C15_Witness ==
    /\ registered = <<"qPos", "qOriQuat">>
    /\ cov_type = "ctFull"
    /\ quantities["qOriQuat"] = 4

----------------------------------------------------------------------------
(* Claims on the two threads (SpecThreads) *)

(* C11: lock discipline.  No operation takes mutex_data while its own thread
   holds it and none unlocks a lock object that owns nothing; every public
   call returns with mutex_data free.  (The safety part of the claim: the
   "eventually acquires" part is stated as its consequence.) *)
C11_LockDiscipline ==
    /\ lock_fault = "none"
    /\ \A t \in Threads : pc[t] = "idle" => mutex_data # t

(* C12: no read/write race on a slot.  No consumer read of a slot's timestamp
   or payload happens while the producer is storing into that slot. *)
C12_NoSlotRace == writing = NoPos \/ writing \notin probed

(* C22: release() frees exactly the current read position.  Called by the
   consumer after its getRaw(id), whatever the producer did meanwhile, it finds
   read_pos = id claimed, sets read_pos to id + 1 modulo bufferSize, clears
   read_pos_used, leaves what getUnreadRawInfos and getNextRawInfo report
   unchanged, takes slot id out of the slots the producer may not write
   (getWritePos() succeeds when write_pos is id), and does not move read_pos
   past write_pos. *)
C22_Release ==
    [][(last.op = "getRaw" /\ last.err = "none" /\ last'.op = "release") =>
        /\ read_pos = last.id /\ read_pos_used
        /\ read_pos' = (last.id + 1) % bufferSize
        /\ ~read_pos_used'
        /\ getUnreadRawInfos(Cur') = getUnreadRawInfos(Cur)
        /\ getNextRawInfo(Cur') = getNextRawInfo(Cur)
        /\ last.id \notin Window(Cur')
        /\ write_pos = last.id => getWritePos(Cur').err = "none"
        /\ read_pos' \in Window(Cur) \cup {write_pos}]_vars

----------------------------------------------------------------------------
(* Claims on the freshly loaded buffer (SpecRange) *)

(* C4 as amended: getRaws(t_i, t_j, false) with i <= j returns, in
   chronological order, the slot before reading i and the readings i..j: for
   i >= 1 that is readings i-1..j, for i = 0 the sentinel slot that precedes
   the first reading followed by readings 0..j; with a "from start" t1 above
   the sentinel (-99 < t1 <= -0.1) it returns exactly readings 0..j. *)
C4_Range ==
    last.op = "getRaws" =>
        \A i \in 0 .. data_count - 1, j \in 0 .. data_count - 1 :
            /\ (i <= j /\ last.t1 = buffer[ReadingSlot(i)]
                       /\ last.t2 = buffer[ReadingSlot(j)]) =>
                   /\ last.err = "none"
                   /\ last.view = ReadingSlots(i - 1, j)
                   /\ buffer[last.view[1]] = IF i = 0 THEN NoDataTimestamp
                                             ELSE buffer[ReadingSlot(i - 1)]
            /\ (last.t1 > NoDataTimestamp /\ last.t1 <= FromStartThreshold
                       /\ last.t2 = buffer[ReadingSlot(j)]) =>
                   (last.err = "none" /\ last.view = ReadingSlots(0, j))

(* C4 witness: a range that starts at the first reading and wraps past index 0
   was retrieved *)
C4_Witness ==
    /\ last.op = "getRaws"
    /\ last.t1 = buffer[read_pos]
    /\ last.t2 > last.t1
    /\ Len(last.view) >= 3
    /\ last.view[1] > last.view[Len(last.view)]

(* C4 as stated: getRaws(t_i, t_j, false) returns exactly the readings i-1..j
   (readings only: 0..j when i = 0), and with any t1 <= -0.1 exactly the
   readings from the first one through j. *)
C4_Original ==
    last.op = "getRaws" =>
        \A i \in 0 .. data_count - 1, j \in 0 .. data_count - 1 :
            /\ (i <= j /\ last.t1 = buffer[ReadingSlot(i)]
                       /\ last.t2 = buffer[ReadingSlot(j)]) =>
                   /\ last.err = "none"
                   /\ last.view = ReadingSlots(IF i = 0 THEN 0 ELSE i - 1, j)
            /\ (last.t1 <= FromStartThreshold
                       /\ last.t2 = buffer[ReadingSlot(j)]) =>
                   (last.err = "none" /\ last.view = ReadingSlots(0, j))

(* C16: precondition t1 <= t2.  getRaws(t1, t2, release) with t1 > t2 is
   rejected with an error, returns no view (the bounds are not swapped) and
   leaves read_pos, write_pos, buffer_full and read_pos_used unchanged, with
   release true as with release false. *)
C16_Precondition ==
    [][(last'.op = "getRaws" /\ last'.t1 > last'.t2) =>
        /\ last'.err # "none"
        /\ last'.view = <<>>
        /\ UNCHANGED <<read_pos, write_pos, buffer_full, read_pos_used>>]_vars

(* C16 witness: a reversed range with release = true was rejected although
   readings lie between its bounds *)
C16_Witness ==
    /\ last.op = "getRaws"
    /\ last.t1 > last.t2
    /\ last.rel
    /\ last.err = "ASSERT"
    /\ \E x \in Slots : last.t2 <= buffer[x] /\ buffer[x] <= last.t1

----------------------------------------------------------------------------
(* Claims on the exporter (SpecExporter) *)

(* C23: exporter shutdown.  Once stop() has been called the sendTask thread
   eventually leaves its loop, and from then on sends nothing, whatever the
   interleaving of stop() with the exportCurrentState() calls and with the
   reset of condition_send by sendTask. *)
C23_Shutdown == stopped ~> [](pc["sendTask"] = "done")

====
